---- MODULE Spec2Model ----
(***************************************************************************)
(* Model of src/prerendered_static.rs: the Ws2812<SPI, N> store (a byte    *)
(* buffer `data` of N * 3 slots, the fill cursor `index`, the owned SPI    *)
(* transceiver) with its accessors, the bit encoder write_byte, the        *)
(* transmission sequencer send_data and SmartLedsWrite::write.             *)
(*                                                                         *)
(* The transceiver is the environment: every send/read call returns Ok,    *)
(* WouldBlock (block! retries the same call) or an error value.            *)
(***************************************************************************)
EXTENDS Integers, Sequences, FiniteSets

VARIABLES
    mosi_idle_high, \* cfg!(feature = "mosi_idle_high"), fixed at build time
    data,           \* self.data : [u8; N * 3]
    index,          \* self.index : usize
    pc,             \* position of the caller / of the running write call
    k,              \* loop counter of the loop of send_data that pc is in
    input,          \* the colors the iterator of the running write yielded
    trace,          \* transceiver calls of the running write that returned Ok
    attempt,        \* the latest transceiver call and what it returned
    result,         \* what the latest finished write returned
    last,           \* the latest call on the store made by the caller
    nsets           \* number of set_led_color / set_value_at calls so far

vars == <<mosi_idle_high, data, index, pc, k, input, trace, attempt, result,
          last, nsets>>

(***************************************************************************)
(* Bounds of the model.                                                    *)
(***************************************************************************)
N == 5            \* pixel capacity of the strip (const generic N)
MaxColors == 2    \* longest color sequence handed to write
MaxSets == 1      \* set_led_color / set_value_at calls per run

(***************************************************************************)
(* Program constants.                                                      *)
(***************************************************************************)
Pad == 140        \* zero bytes of each padding loop of send_data

Cap == N * 3      \* length of self.data

Read == -1        \* trace entry of a read; a send is logged as its byte

Byte == 0 .. 255

RGB(r, g, b) == [r |-> r, g |-> g, b |-> b]

\* 27 = 0b00011011 and 228 = 0b11100100 hold all four 2-bit groups
Colors == {RGB(255, 0, 27), RGB(1, 228, 128)}

Vals == {165}

\* the pixels and slots the owner sets between writes: the first pixel and a
\* slot inside it, which every non-empty write overwrites, and the last ones
Pixels == {0, N - 1}

Slots == {1, Cap - 1}

\* the colors and values of the calls on the store alone
StoreColors == Colors \cup {RGB(0, 0, 0), RGB(255, 255, 255), RGB(136, 142, 232)}

StoreVals == {0, 1, 127, 128, 165, 255}

Errors == {"E1", "E2"}

NoColor == RGB(0, 0, 0)

\* a call on the store: its name and arguments, what it returned once it
\* has (res), and whether the call before it was a write that failed
Call(op, i, c, v, f) ==
    [op |-> op, idx |-> i, col |-> c, val |-> v, res |-> "none",
     afterFailed |-> f]

NoCall == Call("new", 0, NoColor, 0, FALSE)

NoAttempt == [op |-> "none", byte |-> 0, res |-> "none"]

ColorSeqs == UNION {[1 .. n -> Colors] : n \in 0 .. MaxColors}

(***************************************************************************)
(* Ws2812::new                                                             *)
(***************************************************************************)
\* a plausible slip: the buffer filled with the idle-high byte
new_data_ones == [i \in 0 .. Cap - 1 |-> 255]

new_data == [i \in 0 .. Cap - 1 |-> 0]

new_index == 0

(***************************************************************************)
(* Accessors                                                               *)
(***************************************************************************)
value_at(d, i) == d[i]

led_color(d, i) == RGB(d[i * 3], d[i * 3 + 1], d[i * 3 + 2])

set_value_at(d, i, v) == [d EXCEPT ![i] = v]

\* a plausible slip: the channel order of the wire (green, red, blue)
set_led_color_grb(d, i, c) ==
    [d EXCEPT ![i * 3] = c.g, ![i * 3 + 1] = c.r, ![i * 3 + 2] = c.b]

\* a plausible slip: the offset one slot too far
set_led_color_off_by_one(d, i, c) ==
    [d EXCEPT ![i * 3 + 1] = c.r, ![i * 3 + 2] = c.g, ![i * 3 + 3] = c.b]

set_led_color(d, i, c) ==
    [d EXCEPT ![i * 3] = c.r, ![i * 3 + 1] = c.g, ![i * 3 + 2] = c.b]

(***************************************************************************)
(* write_byte: four iterations, each storing the pattern of the two top    *)
(* bits of the u8 at data[index], then index += 1 and data <<= 2.          *)
(* self.data[self.index] panics when index is out of bounds.               *)
(* A store state is [data, index, panic].                                  *)
(***************************************************************************)
patterns == <<136, 142, 232, 238>>

\* a plausible slip: the two low bits instead of the two high bits
bits_low(v) == v % 4

bits(v) == (v \div 64) % 4

shl2(v) == (v * 4) % 256

RECURSIVE write_byte_loop(_, _, _)
write_byte_loop(s, v, n) ==
    IF n = 0 \/ s.panic THEN s
    ELSE IF s.index >= Cap
         THEN [s EXCEPT !.panic = TRUE]
         ELSE write_byte_loop(
                  [data  |-> [s.data EXCEPT ![s.index] = patterns[bits(v) + 1]],
                   index |-> s.index + 1,
                   panic |-> FALSE],
                  shl2(v), n - 1)

\* a plausible slip: a loop over 0..3, one 2-bit group short
write_byte_short(s, v) == write_byte_loop(s, v, 3)

write_byte(s, v) == write_byte_loop(s, v, 4)

(***************************************************************************)
(* The encoding part of write: index = 0, then green, red, blue of every   *)
(* item in order.                                                          *)
(***************************************************************************)
\* a plausible slip: red first, as the colors are stored by set_led_color
write_item_rgb(s, c) == write_byte(write_byte(write_byte(s, c.r), c.g), c.b)

write_item(s, c) == write_byte(write_byte(write_byte(s, c.g), c.r), c.b)

RECURSIVE write_items(_, _)
write_items(s, cs) ==
    IF cs = <<>> \/ s.panic THEN s
    ELSE write_items(write_item(s, Head(cs)), Tail(cs))

\* a plausible slip: the cursor is not reset, encoding goes on where it was
write_encode_no_reset(d, idx, cs) ==
    write_items([data |-> d, index |-> idx, panic |-> FALSE], cs)

\* a plausible slip: the buffer cleared before the encoding
write_encode_clear(d, idx, cs) ==
    write_items([data |-> [i \in 0 .. Cap - 1 |-> 0], index |-> 0,
                 panic |-> FALSE], cs)

write_encode(d, idx, cs) ==
    write_items([data |-> d, index |-> 0, panic |-> FALSE], cs)

(***************************************************************************)
(* send_data: the control flow between its transceiver calls.  A position  *)
(* is the call about to be made: pc names the statement, k the iteration   *)
(* of the loop around it.                                                  *)
(***************************************************************************)
Pos(p, j) == [pc |-> p, k |-> j]

is_send(p) == p \in {"lead", "pre_send", "pay_send", "trail_send"}

is_read(p) == p \in {"pre_read", "pay_read", "trail_read", "drain"}

enter_trail == Pos("trail_send", 0)

\* for b in self.data[..self.index].iter()
enter_payload(idx) == IF idx > 0 THEN Pos("pay_send", 0) ELSE enter_trail

\* if cfg!(feature = "mosi_idle_high") { for _ in 0..140 {...} }
\* a plausible slip: the padding loop outside the cfg! test
enter_pre_always(mosi, idx) == Pos("pre_send", 0)

enter_pre(mosi, idx) == IF mosi THEN Pos("pre_send", 0) ELSE enter_payload(idx)

\* a plausible slip: the payload loop without its read
after_ok_no_read(p, j, mosi, idx) ==
    CASE p = "lead"       -> enter_pre(mosi, idx)
      [] p = "pre_send"   -> Pos("pre_read", j)
      [] p = "pre_read"   -> IF j + 1 < Pad THEN Pos("pre_send", j + 1)
                                            ELSE enter_payload(idx)
      [] p = "pay_send"   -> IF j + 1 < idx THEN Pos("pay_send", j + 1)
                                            ELSE enter_trail
      [] p = "trail_send" -> Pos("trail_read", j)
      [] p = "trail_read" -> IF j + 1 < Pad THEN Pos("trail_send", j + 1)
                                            ELSE Pos("drain", 0)
      [] p = "drain"      -> Pos("done", 0)

\* a plausible slip: the read that resolves the offset of the lead byte left out
after_ok_no_drain(p, j, mosi, idx) ==
    CASE p = "lead"       -> enter_pre(mosi, idx)
      [] p = "pre_send"   -> Pos("pre_read", j)
      [] p = "pre_read"   -> IF j + 1 < Pad THEN Pos("pre_send", j + 1)
                                            ELSE enter_payload(idx)
      [] p = "pay_send"   -> Pos("pay_read", j)
      [] p = "pay_read"   -> IF j + 1 < idx THEN Pos("pay_send", j + 1)
                                            ELSE enter_trail
      [] p = "trail_send" -> Pos("trail_read", j)
      [] p = "trail_read" -> IF j + 1 < Pad THEN Pos("trail_send", j + 1)
                                            ELSE Pos("done", 0)
      [] p = "drain"      -> Pos("done", 0)

\* the position after the call at (p, j) returned Ok
after_ok(p, j, mosi, idx) ==
    CASE p = "lead"       -> enter_pre(mosi, idx)
      [] p = "pre_send"   -> Pos("pre_read", j)
      [] p = "pre_read"   -> IF j + 1 < Pad THEN Pos("pre_send", j + 1)
                                            ELSE enter_payload(idx)
      [] p = "pay_send"   -> Pos("pay_read", j)
      [] p = "pay_read"   -> IF j + 1 < idx THEN Pos("pay_send", j + 1)
                                            ELSE enter_trail
      [] p = "trail_send" -> Pos("trail_read", j)
      [] p = "trail_read" -> IF j + 1 < Pad THEN Pos("trail_send", j + 1)
                                            ELSE Pos("drain", 0)
      [] p = "drain"      -> Pos("done", 0)

\* a plausible slip: WouldBlock taken for completion, the call is not retried
after_would_block_skip(p, j, mosi, idx) == after_ok(p, j, mosi, idx)

\* the position after the call at (p, j) returned WouldBlock: block! loops
\* and makes the same call again
after_would_block(p, j, mosi, idx) == Pos(p, j)

\* the position after the call at (p, j) returned Err: `?` returns from send_data
after_err(p, j) == Pos("done", 0)

\* the byte handed to self.spi.send at (p, j)
send_byte(p, j, d) == IF p = "pay_send" THEN d[j] ELSE 0

\* what send_data returns when it leaves through Ok(()) or through `?`
send_data_ok == "Ok"

\* a plausible slip: the error of the call dropped
send_data_err_dropped(e) == "Ok"

send_data_err(e) == e

(***************************************************************************)
(* The state after construction.                                           *)
(***************************************************************************)
Init ==
    /\ mosi_idle_high \in BOOLEAN
    /\ data = new_data
    /\ index = new_index
    /\ pc = "idle"
    /\ k = 0
    /\ input = <<>>
    /\ trace = <<>>
    /\ attempt = NoAttempt
    /\ result = "none"
    /\ last = NoCall
    /\ nsets = 0

(***************************************************************************)
(* Calls of the owner between writes.                                      *)
(***************************************************************************)
SetLedColor(i, c) ==
    /\ pc = "idle"
    /\ nsets < MaxSets
    /\ data' = set_led_color(data, i, c)
    /\ last' = Call("set_led_color", i, c, 0, last.res \in Errors)
    /\ nsets' = nsets + 1
    /\ UNCHANGED <<mosi_idle_high, index, pc, k, input, trace, attempt,
                   result>>

SetValueAt(i, v) ==
    /\ pc = "idle"
    /\ nsets < MaxSets
    /\ data' = set_value_at(data, i, v)
    /\ last' = Call("set_value_at", i, NoColor, v, last.res \in Errors)
    /\ nsets' = nsets + 1
    /\ UNCHANGED <<mosi_idle_high, index, pc, k, input, trace, attempt,
                   result>>

(***************************************************************************)
(* SmartLedsWrite::write up to its first transceiver call: the cursor      *)
(* reset, the encoding loop and the entry into send_data.                  *)
(***************************************************************************)
Write(cs) ==
    /\ pc = "idle"
    /\ LET s == write_encode(data, index, cs)
       IN  /\ data' = s.data
           /\ index' = s.index
           /\ pc' = IF s.panic THEN "panic" ELSE "lead"
    /\ k' = 0
    /\ input' = cs
    /\ trace' = <<>>
    /\ attempt' = NoAttempt
    /\ result' = "none"
    /\ last' = Call("write", 0, NoColor, 0, last.res \in Errors)
    /\ UNCHANGED <<mosi_idle_high, nsets>>

(***************************************************************************)
(* block!(self.spi.send(b))? : one call of send per step.                  *)
(***************************************************************************)
SendOk ==
    /\ is_send(pc)
    /\ LET b == send_byte(pc, k, data)
           n == after_ok(pc, k, mosi_idle_high, index)
       IN  /\ trace' = Append(trace, b)
           /\ attempt' = [op |-> "send", byte |-> b, res |-> "Ok"]
           /\ pc' = n.pc
           /\ k' = n.k
    /\ UNCHANGED <<mosi_idle_high, data, index, input, result, last,
                   nsets>>

SendWouldBlock ==
    /\ is_send(pc)
    /\ LET n == after_would_block(pc, k, mosi_idle_high, index)
       IN  /\ pc' = n.pc
           /\ k' = n.k
           /\ result' = IF n.pc = "done" THEN send_data_ok ELSE result
    /\ attempt' = [op |-> "send", byte |-> send_byte(pc, k, data),
                   res |-> "WouldBlock"]
    /\ UNCHANGED <<mosi_idle_high, data, index, input, trace, last, nsets>>

SendErr(e) ==
    /\ is_send(pc)
    /\ LET n == after_err(pc, k)
       IN  /\ pc' = n.pc
           /\ k' = n.k
    /\ attempt' = [op |-> "send", byte |-> send_byte(pc, k, data), res |-> e]
    /\ result' = send_data_err(e)
    /\ UNCHANGED <<mosi_idle_high, data, index, input, trace, last,
                   nsets>>

(***************************************************************************)
(* block!(self.spi.read())? : one call of read per step; the byte read is  *)
(* dropped.                                                                *)
(***************************************************************************)
ReadOk ==
    /\ is_read(pc)
    /\ LET n == after_ok(pc, k, mosi_idle_high, index)
       IN  /\ pc' = n.pc
           /\ k' = n.k
           /\ result' = IF n.pc = "done" THEN send_data_ok ELSE result
    /\ trace' = Append(trace, Read)
    /\ attempt' = [op |-> "read", byte |-> 0, res |-> "Ok"]
    /\ UNCHANGED <<mosi_idle_high, data, index, input, last, nsets>>

ReadWouldBlock ==
    /\ is_read(pc)
    /\ LET n == after_would_block(pc, k, mosi_idle_high, index)
       IN  /\ pc' = n.pc
           /\ k' = n.k
           /\ result' = IF n.pc = "done" THEN send_data_ok ELSE result
    /\ attempt' = [op |-> "read", byte |-> 0, res |-> "WouldBlock"]
    /\ UNCHANGED <<mosi_idle_high, data, index, input, trace, last, nsets>>

ReadErr(e) ==
    /\ is_read(pc)
    /\ LET n == after_err(pc, k)
       IN  /\ pc' = n.pc
           /\ k' = n.k
    /\ attempt' = [op |-> "read", byte |-> 0, res |-> e]
    /\ result' = send_data_err(e)
    /\ UNCHANGED <<mosi_idle_high, data, index, input, trace, last,
                   nsets>>

(***************************************************************************)
(* write has returned `result` to its caller, which goes on.               *)
(***************************************************************************)
Return ==
    /\ pc = "done"
    /\ pc' = "idle"
    /\ k' = 0
    /\ input' = <<>>
    /\ trace' = <<>>
    /\ attempt' = NoAttempt
    /\ result' = "none"
    /\ last' = [last EXCEPT !.res = result]
    /\ UNCHANGED <<mosi_idle_high, data, index, nsets>>

Next ==
    \/ \E i \in Pixels, c \in Colors : SetLedColor(i, c)
    \/ \E i \in Slots, v \in Vals : SetValueAt(i, v)
    \/ \E cs \in ColorSeqs : Write(cs)
    \/ SendOk
    \/ SendWouldBlock
    \/ \E e \in Errors : SendErr(e)
    \/ ReadOk
    \/ ReadWouldBlock
    \/ \E e \in Errors : ReadErr(e)
    \/ Return

Spec == Init /\ [][Next]_vars

(***************************************************************************)
(* A transceiver that does not report WouldBlock forever: the call write   *)
(* is blocked on eventually returns Ok or an error.                        *)
(***************************************************************************)
Resolve ==
    \/ SendOk
    \/ ReadOk
    \/ \E e \in Errors : SendErr(e)
    \/ \E e \in Errors : ReadErr(e)

SpecLive == Spec /\ WF_vars(Resolve)

(***************************************************************************)
(* The store alone: set_led_color on every pixel and set_value_at on every *)
(* slot, with no write.                                                    *)
(***************************************************************************)
NextStore ==
    \/ \E i \in 0 .. N - 1, c \in StoreColors : SetLedColor(i, c)
    \/ \E i \in 0 .. Cap - 1, v \in StoreVals : SetValueAt(i, v)

SpecStore == Init /\ [][NextStore]_vars

(***************************************************************************)
(* The bit encoder alone: write_byte applied to one channel byte at a      *)
(* cursor that leaves room for its four bytes.  `last` holds the byte, k   *)
(* the cursor before the call.                                             *)
(***************************************************************************)
InitEnc ==
    /\ mosi_idle_high = FALSE
    /\ data = new_data
    /\ index \in 0 .. Cap - 4
    /\ k = index
    /\ pc = "encode"
    /\ input = <<>>
    /\ trace = <<>>
    /\ attempt = NoAttempt
    /\ result = "none"
    /\ \E v \in Byte :
           last = Call("write_byte", 0, NoColor, v, FALSE)
    /\ nsets = 0

EncodeByte ==
    /\ pc = "encode"
    /\ LET s == write_byte([data |-> data, index |-> index, panic |-> FALSE],
                           last.val)
       IN  /\ data' = s.data
           /\ index' = s.index
           /\ pc' = IF s.panic THEN "panic" ELSE "encoded"
    /\ UNCHANGED <<mosi_idle_high, k, input, trace, attempt, result, last,
                   nsets>>

NextEnc == EncodeByte

SpecEnc == InitEnc /\ [][NextEnc]_vars

(***************************************************************************)
(* What the claims speak of.                                               *)
(***************************************************************************)
\* the documented waveform of a 2-bit group
Waveform(g) ==
    CASE g = 0 -> 136      \* 0b10001000
      [] g = 1 -> 142      \* 0b10001110
      [] g = 2 -> 232      \* 0b11101000
      [] g = 3 -> 238      \* 0b11101110

\* the j-th 2-bit group of v, j = 0 the most significant (bits 7-6)
Group(v, j) ==
    CASE j = 0 -> v \div 64
      [] j = 1 -> (v \div 16) % 4
      [] j = 2 -> (v \div 4) % 4
      [] j = 3 -> v % 4

Encode(v) == [j \in 1 .. 4 |-> Waveform(Group(v, j - 1))]

EncodeColor(c) == Encode(c.g) \o Encode(c.r) \o Encode(c.b)

RECURSIVE EncodeColors(_)
EncodeColors(cs) ==
    IF cs = <<>> THEN <<>> ELSE EncodeColor(Head(cs)) \o EncodeColors(Tail(cs))

Zeros(n) == [j \in 1 .. n |-> 0]

IsSent(x) == x # Read

\* the bytes the transceiver accepted, in order
Sends(t) == SelectSeq(t, IsSent)

NumReads(t) == Len(t) - Len(Sends(t))

Filled == [j \in 1 .. index |-> data[j - 1]]

Succeeded == pc = "done" /\ result = "Ok"

PrePad == IF mosi_idle_high THEN 140 ELSE 0

(***************************************************************************)
(* C1: write_byte(v) appends exactly 4 bytes, the k-th being the waveform  *)
(* of the k-th 2-bit group of v, most significant group first; no other    *)
(* slot changes.                                                           *)
(***************************************************************************)
C1_WriteByte ==
    pc = "encoded" =>
        /\ index = k + 4
        /\ \A j \in 0 .. 3 : data[k + j] = Waveform(Group(last.val, j))
        /\ \A j \in 0 .. Cap - 1 : (j < k \/ j >= k + 4) => data[j] = 0

C1_Witness ==
    pc = "encoded" /\ last.val = 27 /\ k = 3 /\ data[3] = 136 /\ data[4] = 142
    /\ data[5] = 232 /\ data[6] = 238

(***************************************************************************)
(* C2: a write of a color sequence no longer than the pixel capacity N     *)
(* encodes every color without the cursor reaching past the buffer: it     *)
(* never indexes a slot at 3 * N or beyond.                                *)
(***************************************************************************)
C2_FitsCapacity == (last.op = "write" /\ Len(input) <= N) => pc # "panic"

(***************************************************************************)
(* C3: after write, led_color(i) of every written pixel i is the color     *)
(* written for it.                                                         *)
(***************************************************************************)
C3_ReadBack ==
    Succeeded =>
        \A i \in 1 .. Len(input) :
            (i - 1) * 3 + 2 < Cap => led_color(data, i - 1) = input[i]

(***************************************************************************)
(* C4: a successful write sends 1 zero byte, 140 zero bytes iff            *)
(* mosi_idle_high, the filled prefix of the buffer, then 140 zero bytes,   *)
(* in this order and nothing else.                                         *)
(***************************************************************************)
C4_SendOrder ==
    Succeeded =>
        /\ Sends(trace) = <<0>> \o Zeros(PrePad) \o Filled \o Zeros(140)
        /\ Len(Sends(trace)) = 1 + PrePad + index + 140

C4_Witness ==
    Succeeded /\ mosi_idle_high /\ index = 12 /\ Len(Sends(trace)) = 293

(***************************************************************************)
(* C5 as claimed: every send, the lead byte's too, is followed by a        *)
(* receive before the next send.                                           *)
(***************************************************************************)
C5_StrictAlternation ==
    Len(trace) >= 2 =>
        (IsSent(trace[Len(trace) - 1]) => ~IsSent(trace[Len(trace)]))

(***************************************************************************)
(* C5 amended: in a successful write the lead send is followed directly by *)
(* the next send; every later send is followed by exactly one receive      *)
(* before the next send; the last call is a receive, and there are as many *)
(* receives as sends.                                                      *)
(***************************************************************************)
C5_AlternationAfterLead ==
    Succeeded =>
        /\ IsSent(trace[1]) /\ IsSent(trace[2])
        /\ \A j \in 2 .. Len(trace) - 1 : IsSent(trace[j]) <=> (j % 2 = 0)
        /\ ~IsSent(trace[Len(trace)])
        /\ NumReads(trace) = Len(Sends(trace))

C5_Witness == Succeeded /\ Len(trace) = 2 * (1 + PrePad + 12 + 140)

(***************************************************************************)
(* C6: when a transceiver call of a write fails, that call is the last one *)
(* of the write, and write returns the error of that call.                 *)
(***************************************************************************)
C6_ErrorAborts ==
    attempt.res \in Errors => (pc = "done" /\ result = attempt.res)

C6_Witness ==
    pc = "done" /\ result = "E2" /\ attempt.op = "read" /\ Len(trace) = 4

(***************************************************************************)
(* C7: a write of count < N colors transmits exactly 12 * count payload    *)
(* bytes.                                                                  *)
(***************************************************************************)
C7_PayloadLength ==
    (Len(input) < N /\ (Succeeded \/ pc = "panic")) =>
        Len(Sends(trace)) = 1 + PrePad + 12 * Len(input) + 140

C9_Independent ==
    (last.op = "write" /\ pc \notin {"idle", "panic"}) =>
        LET sent == Sends(trace)
            all == <<0>> \o Zeros(PrePad) \o EncodeColors(input) \o Zeros(140)
        IN  /\ Len(sent) <= Len(all)
            /\ sent = SubSeq(all, 1, Len(sent))
            /\ Succeeded => sent = all

C9_Witness ==
    Succeeded /\ last.afterFailed /\ nsets > 0 /\ input = <<>> /\ data[1] # 0

(***************************************************************************)
(* C10: after set_led_color(i, c), led_color(i) is c and the slots 3i,     *)
(* 3i + 1, 3i + 2 hold c.r, c.g, c.b.                                      *)
(***************************************************************************)
C10_SetThenGet ==
    last.op = "set_led_color" =>
        /\ led_color(data, last.idx) = last.col
        /\ value_at(data, 3 * last.idx) = last.col.r
        /\ value_at(data, 3 * last.idx + 1) = last.col.g
        /\ value_at(data, 3 * last.idx + 2) = last.col.b

C10_Witness ==
    last.op = "set_led_color" /\ last.idx = 2 /\ last.col = RGB(255, 0, 27)
    /\ led_color(data, 2) = RGB(255, 0, 27)

\* bytes the transceiver accepted whose receive has not completed yet
InFlight == Len(Sends(trace)) - NumReads(trace)

InSendData == is_send(pc) \/ is_read(pc) \/ pc = "done"

(***************************************************************************)
(* C11: in send_data every send after the lead one is at once followed by  *)
(* a receive; the bytes sent and not yet received are 1 after the lead     *)
(* send, never more than 2, and 0 when the call returns Ok.                *)
(***************************************************************************)
C11_InFlight ==
    /\ InFlight \in 0 .. 2
    /\ Len(trace) = 1 => InFlight = 1
    /\ (InSendData /\ Len(trace) >= 1 /\ ~Succeeded) => InFlight >= 1
    /\ (Len(trace) >= 3 /\ IsSent(trace[Len(trace) - 1]))
           => ~IsSent(trace[Len(trace)])
    /\ Succeeded => InFlight = 0

C11_Witness == pc = "pay_read" /\ k = 11 /\ InFlight = 2

(***************************************************************************)
(* C12: write resets the cursor to 0 whatever an earlier call left in it   *)
(* and every channel byte advances it by 4: from the start of the          *)
(* transmission to its end the cursor is 12 times the number of colors.    *)
(***************************************************************************)
C12_Cursor == InSendData => index = 12 * Len(input)

\* an empty write after one that had left the cursor at 12
C12_Witness ==
    pc = "drain" /\ input = <<>> /\ index = 0 /\ data[0] = 238 /\ data[11] = 136

(***************************************************************************)
(* C13: set_led_color(i, c) changes the slots 3i, 3i + 1, 3i + 2 only: the *)
(* other slots and the cursor stay, and no transceiver call is made.       *)
(***************************************************************************)
SetLedColorStep == last'.op = "set_led_color" /\ nsets' = nsets + 1

C13_SetFrame ==
    [][SetLedColorStep =>
          /\ \A j \in 0 .. Cap - 1 :
                 j \notin {3 * last'.idx, 3 * last'.idx + 1, 3 * last'.idx + 2}
                     => data'[j] = data[j]
          /\ index' = index
          /\ trace' = trace
          /\ attempt' = attempt
          /\ pc' = pc]_vars

\* pixel 0 set after a write that had filled slots 0 .. 11
C13_Witness ==
    /\ last.op = "set_led_color" /\ last.idx = 0 /\ index = 12
    /\ data[0] = 255 /\ data[3] \in {136, 238} /\ trace = <<>>

(***************************************************************************)
(* C17: after construction every slot reads 0 through value_at, the cursor *)
(* is 0, and no transceiver call has been made.                            *)
(***************************************************************************)
C17_New ==
    last.op = "new" =>
        /\ \A j \in 0 .. Cap - 1 : value_at(data, j) = 0
        /\ index = 0
        /\ trace = <<>>
        /\ attempt.op = "none"

C17_Witness ==
    last.op = "new" /\ pc = "idle" /\ nsets = 0 /\ value_at(data, Cap - 1) = 0

\* a send or receive paired with every byte of bs
Paired(bs) ==
    [j \in 1 .. 2 * Len(bs) |-> IF j % 2 = 1 THEN bs[(j + 1) \div 2] ELSE Read]

\* the accepted sends and completed receives of a write of cs, by the source
\* order lead, pre-padding, payload, trailing padding, final receive
CallsOf(cs) ==
    <<0>> \o Paired(Zeros(PrePad) \o EncodeColors(cs) \o Zeros(140)) \o <<Read>>

(***************************************************************************)
(* C15: a call that reports WouldBlock is made again, with the same byte,  *)
(* and nothing else moves; so the accepted sends and completed receives of *)
(* a successful write are those of its input, whatever blocked.            *)
(***************************************************************************)
C15_WouldBlock ==
    /\ [][attempt'.res = "WouldBlock" =>
              /\ pc' = pc /\ k' = k /\ trace' = trace
              /\ data' = data /\ index' = index /\ result' = result]_vars
    /\ [][(attempt.res = "WouldBlock" /\ attempt' # attempt) =>
              /\ attempt'.op = attempt.op
              /\ attempt'.byte = attempt.byte]_vars
    /\ [](Succeeded => trace = CallsOf(input))

C15_Witness ==
    /\ attempt = [op |-> "send", byte |-> 238, res |-> "WouldBlock"]
    /\ pc = "pay_send" /\ k = 0 /\ Len(trace) = 1 + 2 * PrePad

(***************************************************************************)
(* C16: once write has encoded its input, every byte of buffer[0..cursor]  *)
(* is one of the four waveforms, whatever was stored there, and the slots  *)
(* from the cursor on hold what they held before the call.                 *)
(***************************************************************************)
WriteStep == pc = "idle" /\ pc' # "idle"

C16_Prefix ==
    /\ [](last.op = "write" /\ pc # "idle" =>
              \A j \in 0 .. index - 1 : data[j] \in {136, 142, 232, 238})
    /\ [][WriteStep =>
              \A j \in 0 .. Cap - 1 : j >= index' => data'[j] = data[j]]_vars

\* the last slot was set to 165 and lies beyond the cursor of a write of one
\* color, which filled slots 0 .. 11
C16_Witness ==
    /\ pc = "lead" /\ index = 12 /\ nsets = 1 /\ data[Cap - 1] = 165
    /\ data[1] \in {136, 232}

(***************************************************************************)
(* C14: with a transceiver whose calls eventually stop reporting           *)
(* WouldBlock, every write that was called eventually returns.             *)
(***************************************************************************)
C14_Returns == (last.op = "write" /\ pc \notin {"idle", "done"}) ~> (pc = "done")

====
